---- MODULE Spec2Model ----
(***************************************************************************)
(* Model of the levelspecter crate: the nom-based levelspec recognizer     *)
(* (src/src/levelparser.rs), the LevelType token (src/src/leveltype.rs)    *)
(* and the LevelSpec aggregate (src/src/levelspec.rs).                     *)
(*                                                                         *)
(* A string is a sequence of ASCII codes.  A parser is an operator of the  *)
(* input and the index of the first unconsumed character; it returns a    *)
(* record [ok, rest, out]: rest is the index of the first character that   *)
(* was not consumed and out the value produced.                            *)
(***************************************************************************)
EXTENDS Integers, Sequences, FiniteSets, TLC

VARIABLES
    input,              \* the &str handed to LevelSpec::from_str
    case_insensitive,   \* cfg!(feature = "case-insensitive") of the build
    pc,                 \* "start" before the call, "done" after it
    parsed,             \* what levelspec_parser(s) returned inside from_str
    result,             \* what LevelSpec::from_str(s) returned
    call                \* the last call of a part constructor or of rel_to_abs:
                        \* its arguments, its receiver after it returned and
                        \* the invocations of the replacer closure it made

vars == <<input, case_insensitive, pc, parsed, result, call>>

(***************************************************************************)
(* Bounds of the model.                                                    *)
(***************************************************************************)
MaxChunks == 5

(***************************************************************************)
(* Characters and strings.                                                 *)
(***************************************************************************)
DOT == <<46>>
DOTDOT == <<46, 46>>
PERCENT == <<37>>
ASSETDEV == <<65, 83, 83, 69, 84, 68, 69, 86>>
assetdev == <<97, 115, 115, 101, 116, 100, 101, 118>>

\* The pieces inputs are assembled from: "A", "0", ".", "..", "%", "_" and
\* the keyword in upper and in lower case (the lower-case letters of the
\* inputs).
Chunks == {<<65>>, <<48>>, DOT, DOTDOT, PERCENT, <<95>>, ASSETDEV, assetdev}

RECURSIVE Flatten(_)
Flatten(cs) == IF cs = <<>> THEN <<>> ELSE Head(cs) \o Flatten(Tail(cs))

Inputs == {Flatten(cs) : cs \in UNION {[1..n -> Chunks] : n \in 0..MaxChunks}}

Min(S) == CHOOSE x \in S : \A y \in S : x <= y

(***************************************************************************)
(* Character classes.                                                      *)
(***************************************************************************)
is_alpha_lower(c) == c >= 97 /\ c <= 122
is_alpha_upper(c) == c >= 65 /\ c <= 90
is_dec_digit(c) == c >= 48 /\ c <= 57
is_alphanum_upper(c) == is_alpha_upper(c) \/ is_dec_digit(c)
is_alpha(c) == is_alpha_lower(c) \/ is_alpha_upper(c)
is_alphanum(c) == is_alpha(c) \/ is_dec_digit(c)

Ascii == 0..127
AlphaUpper == {c \in Ascii : is_alpha_upper(c)}
AlphaNumUpper == {c \in Ascii : is_alphanum_upper(c)}
Alpha == {c \in Ascii : is_alpha(c)}
AlphaNum == {c \in Ascii : is_alphanum(c)}
Digit == {c \in Ascii : is_dec_digit(c)}

to_lowercase(c) == IF is_alpha_upper(c) THEN c + 32 ELSE c
to_uppercase(c) == IF is_alpha_lower(c) THEN c - 32 ELSE c

(***************************************************************************)
(* nom primitives.                                                         *)
(***************************************************************************)
Fail == [ok |-> FALSE, rest |-> 0, out |-> <<>>]
Ok(rest, out) == [ok |-> TRUE, rest |-> rest, out |-> out]

\* index of the first character at or after i that is not in class
RECURSIVE split_at_position(_, _, _)
split_at_position(class, s, i) ==
    IF i > Len(s) \/ s[i] \notin class THEN i
    ELSE split_at_position(class, s, i + 1)

\* zero or more characters of class
many0_class(class, s, i) ==
    LET j == split_at_position(class, s, i)
    IN  Ok(j, SubSeq(s, i, j - 1))

\* one or more characters of class
many1_class(class, s, i) ==
    LET j == split_at_position(class, s, i)
    IN  IF j = i THEN Fail ELSE Ok(j, SubSeq(s, i, j - 1))

tag(t, s, i) ==
    IF i + Len(t) - 1 <= Len(s) /\ SubSeq(s, i, i + Len(t) - 1) = t
    THEN Ok(i + Len(t), t)
    ELSE Fail

tag_no_case(t, s, i) ==
    IF /\ i + Len(t) - 1 <= Len(s)
       /\ \A k \in 1..Len(t) : to_lowercase(s[i + k - 1]) = to_lowercase(t[k])
    THEN Ok(i + Len(t), SubSeq(s, i, i + Len(t) - 1))
    ELSE Fail

digit1(s, i) == many1_class(Digit, s, i)

\* alt((a, b)) of two parsers: b is tried only when a fails
first_ok(a, b) == IF a.ok THEN a ELSE b

\* recognize(tuple((first1, rest0)))
alpha_then_alphanum(first, others, s, i) ==
    LET a == many1_class(first, s, i)
    IN  IF ~a.ok THEN Fail
        ELSE LET b == many0_class(others, s, a.rest)
             IN  Ok(b.rest, SubSeq(s, i, b.rest - 1))

alpha_alphanum(s, i) == alpha_then_alphanum(Alpha, AlphaNum, s, i)
alpha_alphanum_upper(s, i) == alpha_then_alphanum(AlphaUpper, AlphaNumUpper, s, i)
alpha_alphanum_alpha(s, i) == alpha_then_alphanum(Alpha, AlphaNum, s, i)
alpha_alphanum_upper_alpha(s, i) == alpha_then_alphanum(AlphaUpper, AlphaNumUpper, s, i)

\* preceded(tag("."), tag("%"))
dot_percent(s, i) ==
    LET d == tag(DOT, s, i) IN IF d.ok THEN tag(PERCENT, s, d.rest) ELSE Fail

(***************************************************************************)
(* LevelType                                                               *)
(***************************************************************************)
Relative == [type |-> "Relative", val |-> <<>>]
Wildcard == [type |-> "Wildcard", val |-> <<>>]
Term(text) == [type |-> "Term", val |-> text]
None == [type |-> "None", val |-> <<>>]

\* From<&str> that makes a Term of every text
LevelTypeFrom_term_only(text) == Term(text)

\* impl From<&str> for LevelType
LevelTypeFrom(text) ==
    IF text = PERCENT THEN Wildcard
    ELSE IF text = <<>> THEN Relative
    ELSE Term(text)

is_wildcard(t) == t = Wildcard
is_relative(t) == t = Relative
is_term(t) == t.type = "Term"

\* LevelType::to_str
to_str(t) ==
    CASE t.type = "Term" -> t.val
      [] t.type = "Wildcard" -> PERCENT
      [] t.type = "Relative" -> <<>>

\* Display for LevelType that writes Relative as '%'
LevelTypeDisplay_relative_as_wildcard(t) ==
    CASE t.type = "Term" -> t.val
      [] t.type = "Wildcard" -> PERCENT
      [] t.type = "Relative" -> PERCENT

\* impl fmt::Display for LevelType
LevelTypeDisplay(t) ==
    CASE t.type = "Term" -> t.val
      [] t.type = "Wildcard" -> PERCENT
      [] t.type = "Relative" -> <<>>

(***************************************************************************)
(* Component parsers.                                                      *)
(***************************************************************************)
\* parse_show that never consults the build's case switch
parse_show_upper_only(ci, s, i) ==
    LET a == alpha_alphanum_upper(s, i)
    IN  IF a.ok THEN a ELSE tag(PERCENT, s, i)

parse_show(ci, s, i) ==
    LET a == IF ci THEN alpha_alphanum(s, i) ELSE alpha_alphanum_upper(s, i)
    IN  IF a.ok THEN a ELSE tag(PERCENT, s, i)

\* parse_seq that takes letters of any case in either build
parse_seq_any_case(ci, s, i) ==
    LET d == tag(DOT, s, i)
        a == IF ~d.ok THEN Fail ELSE alpha_alphanum_alpha(s, d.rest)
    IN  IF a.ok THEN a ELSE dot_percent(s, i)

parse_seq(ci, s, i) ==
    LET d == tag(DOT, s, i)
        a == IF ~d.ok THEN Fail
             ELSE IF ci THEN alpha_alphanum_alpha(s, d.rest)
             ELSE alpha_alphanum_upper_alpha(s, d.rest)
    IN  IF a.ok THEN a ELSE dot_percent(s, i)

\* parse_shot that also takes a dot with nothing after it
parse_shot_or_empty(s, i) ==
    LET d == tag(DOT, s, i)
        a == IF d.ok THEN digit1(s, d.rest) ELSE Fail
    IN  IF a.ok THEN a
        ELSE IF dot_percent(s, i).ok THEN dot_percent(s, i)
        ELSE IF d.ok THEN Ok(d.rest, <<>>)
        ELSE Fail

parse_shot(s, i) ==
    LET d == tag(DOT, s, i)
        a == IF d.ok THEN digit1(s, d.rest) ELSE Fail
    IN  IF a.ok THEN a ELSE dot_percent(s, i)

parse_assetdev_seq(ci, s, i) ==
    LET d == tag(DOT, s, i)
    IN  IF ci
        THEN LET a == IF d.ok THEN tag_no_case(ASSETDEV, s, d.rest) ELSE Fail
             IN  IF a.ok THEN a ELSE dot_percent(s, i)
        ELSE IF d.ok THEN tag(ASSETDEV, s, d.rest) ELSE Fail

parse_assetdev_shot(ci, s, i) ==
    LET d == tag(DOT, s, i)
        a == IF ~d.ok THEN Fail
             ELSE IF ci THEN alpha_alphanum_alpha(s, d.rest)
             ELSE alpha_alphanum_upper_alpha(s, d.rest)
    IN  IF a.ok THEN a ELSE dot_percent(s, i)

parse_rel_seq(ci, s, i) ==
    LET d == tag(DOT, s, i)
        a == IF ~d.ok THEN Fail
             ELSE IF ci THEN alpha_alphanum_alpha(s, d.rest)
             ELSE alpha_alphanum_upper_alpha(s, d.rest)
    IN  IF a.ok THEN a ELSE dot_percent(s, i)

parse_rel_assetdev_seq(ci, s, i) ==
    LET d == tag(DOT, s, i)
    IN  IF ~d.ok THEN Fail
        ELSE IF ci THEN tag_no_case(assetdev, s, d.rest)
        ELSE tag(ASSETDEV, s, d.rest)

parse_rel_seq_rel(ci, s, i) ==
    LET k == parse_rel_assetdev_seq(ci, s, i)
        a == IF k.ok THEN k ELSE parse_rel_seq(ci, s, i)
    IN  IF ~a.ok THEN Fail
        ELSE LET d == tag(DOT, s, a.rest)
             IN  IF d.ok THEN Ok(d.rest, a.out) ELSE Fail

parse_rel_shot(s, i) ==
    LET d == tag(DOT, s, i) IN IF d.ok THEN parse_shot(s, d.rest) ELSE Fail

parse_show_rel_shot(ci, s, i) ==
    LET a == parse_show(ci, s, i)
    IN  IF ~a.ok THEN Fail
        ELSE LET d == tag(DOTDOT, s, a.rest)
             IN  IF d.ok THEN Ok(d.rest, a.out) ELSE Fail

parse_show_rel_seq(ci, s, i) ==
    LET a == parse_show(ci, s, i)
    IN  IF ~a.ok THEN Fail
        ELSE LET d == tag(DOT, s, a.rest)
             IN  IF d.ok THEN Ok(d.rest, a.out) ELSE Fail

(***************************************************************************)
(* The ten alternatives.                                                   *)
(***************************************************************************)
\* shot_alt that commits to the ASSETDEV branch once the keyword matched
shot_alt_committed(ci, s, i) ==
    LET show == parse_show(ci, s, i)
        aseq == IF show.ok THEN parse_assetdev_seq(ci, s, show.rest) ELSE Fail
        ashot == IF aseq.ok THEN parse_assetdev_shot(ci, s, aseq.rest) ELSE Fail
        seq == IF show.ok THEN parse_seq(ci, s, show.rest) ELSE Fail
        shot == IF seq.ok THEN parse_shot(s, seq.rest) ELSE Fail
    IN  IF ashot.ok
        THEN Ok(ashot.rest, <<LevelTypeFrom(show.out), LevelTypeFrom(aseq.out),
                              LevelTypeFrom(ashot.out)>>)
        ELSE IF shot.ok /\ ~aseq.ok
        THEN Ok(shot.rest, <<LevelTypeFrom(show.out), LevelTypeFrom(seq.out),
                             LevelTypeFrom(shot.out)>>)
        ELSE Fail

\* EG DEV01.RD.0001
shot_alt(ci, s, i) ==
    LET show == parse_show(ci, s, i)
        aseq == IF show.ok THEN parse_assetdev_seq(ci, s, show.rest) ELSE Fail
        ashot == IF aseq.ok THEN parse_assetdev_shot(ci, s, aseq.rest) ELSE Fail
        seq == IF show.ok THEN parse_seq(ci, s, show.rest) ELSE Fail
        shot == IF seq.ok THEN parse_shot(s, seq.rest) ELSE Fail
    IN  IF ashot.ok
        THEN Ok(ashot.rest, <<LevelTypeFrom(show.out), LevelTypeFrom(aseq.out),
                              LevelTypeFrom(ashot.out)>>)
        ELSE IF shot.ok
        THEN Ok(shot.rest, <<LevelTypeFrom(show.out), LevelTypeFrom(seq.out),
                             LevelTypeFrom(shot.out)>>)
        ELSE Fail

\* EG DEV01.RD
seq_alt(ci, s, i) ==
    LET show == parse_show(ci, s, i)
        seq == IF show.ok THEN parse_seq(ci, s, show.rest) ELSE Fail
    IN  IF seq.ok
        THEN Ok(seq.rest, <<LevelTypeFrom(show.out), LevelTypeFrom(seq.out)>>)
        ELSE Fail

\* EG DEV01
show_alt(ci, s, i) ==
    LET show == parse_show(ci, s, i)
    IN  IF show.ok THEN Ok(show.rest, <<LevelTypeFrom(show.out)>>) ELSE Fail

\* EG DEV01..
show_rel_shot_alt(ci, s, i) ==
    LET show == parse_show_rel_shot(ci, s, i)
    IN  IF show.ok
        THEN Ok(show.rest, <<LevelTypeFrom(show.out), Relative, Relative>>)
        ELSE Fail

\* EG DEV01.
show_rel_seq_alt(ci, s, i) ==
    LET show == parse_show_rel_seq(ci, s, i)
    IN  IF show.ok
        THEN Ok(show.rest, <<LevelTypeFrom(show.out), Relative>>)
        ELSE Fail

\* EG .RD
rel_seq_alt(ci, s, i) ==
    LET k == parse_rel_assetdev_seq(ci, s, i)
        seq == IF k.ok THEN k ELSE parse_rel_seq(ci, s, i)
    IN  IF seq.ok
        THEN Ok(seq.rest, <<Relative, LevelTypeFrom(seq.out)>>)
        ELSE Fail

\* the loop of fold_many1: apply parse_rel_seq_rel until it fails
RECURSIVE fold_rel_seq_rel(_, _, _, _)
fold_rel_seq_rel(ci, s, i, acc) ==
    LET item == parse_rel_seq_rel(ci, s, i)
    IN  IF ~item.ok THEN Ok(i, acc)
        ELSE fold_rel_seq_rel(ci, s, item.rest,
                 acc \o <<Relative, LevelTypeFrom(item.out), Relative>>)

\* EG .RD.
rel_seq_rel_alt(ci, s, i) ==
    LET first == parse_rel_seq_rel(ci, s, i)
    IN  IF ~first.ok THEN Fail
        ELSE fold_rel_seq_rel(ci, s, first.rest,
                 <<Relative, LevelTypeFrom(first.out), Relative>>)

\* EG .RD.0001
rel_seq_shot_alt(ci, s, i) ==
    LET seq == parse_rel_seq(ci, s, i)
        shot == IF seq.ok THEN parse_shot(s, seq.rest) ELSE Fail
        aseq == parse_rel_assetdev_seq(ci, s, i)
        ashot == IF aseq.ok THEN parse_assetdev_shot(ci, s, aseq.rest) ELSE Fail
    IN  IF shot.ok
        THEN Ok(shot.rest, <<Relative, LevelTypeFrom(seq.out), LevelTypeFrom(shot.out)>>)
        ELSE IF ashot.ok
        THEN Ok(ashot.rest, <<Relative, LevelTypeFrom(aseq.out), LevelTypeFrom(ashot.out)>>)
        ELSE Fail

\* EG DEV01.RD.
show_seq_rel_alt(ci, s, i) ==
    LET show == parse_show(ci, s, i)
        seq == IF show.ok THEN parse_seq(ci, s, show.rest) ELSE Fail
        d == IF seq.ok THEN tag(DOT, s, seq.rest) ELSE Fail
    IN  IF d.ok
        THEN Ok(d.rest, <<LevelTypeFrom(show.out), LevelTypeFrom(seq.out), Relative>>)
        ELSE Fail

\* EG ..0001
rel_shot_alt(s, i) ==
    LET shot == parse_rel_shot(s, i)
    IN  IF shot.ok
        THEN Ok(shot.rest, <<Relative, Relative, LevelTypeFrom(shot.out)>>)
        ELSE Fail

(***************************************************************************)
(* levelparser: all_consuming(alt((...)))                                  *)
(***************************************************************************)
NumAlternatives == 10

\* the alternatives with show_rel_seq_alt tried before show_rel_shot_alt
Alternative_swapped(k, ci, s) ==
    CASE k = 1 -> rel_shot_alt(s, 1)
      [] k = 2 -> rel_seq_shot_alt(ci, s, 1)
      [] k = 3 -> rel_seq_rel_alt(ci, s, 1)
      [] k = 4 -> rel_seq_alt(ci, s, 1)
      [] k = 5 -> shot_alt(ci, s, 1)
      [] k = 6 -> show_rel_seq_alt(ci, s, 1)
      [] k = 7 -> show_seq_rel_alt(ci, s, 1)
      [] k = 8 -> seq_alt(ci, s, 1)
      [] k = 9 -> show_rel_shot_alt(ci, s, 1)
      [] k = 10 -> show_alt(ci, s, 1)

\* the k-th alternative of alt((...)), in the order alt tries them
Alternative(k, ci, s) ==
    CASE k = 1 -> rel_shot_alt(s, 1)
      [] k = 2 -> rel_seq_shot_alt(ci, s, 1)
      [] k = 3 -> rel_seq_rel_alt(ci, s, 1)
      [] k = 4 -> rel_seq_alt(ci, s, 1)
      [] k = 5 -> shot_alt(ci, s, 1)
      [] k = 6 -> show_rel_shot_alt(ci, s, 1)
      [] k = 7 -> show_seq_rel_alt(ci, s, 1)
      [] k = 8 -> seq_alt(ci, s, 1)
      [] k = 9 -> show_rel_seq_alt(ci, s, 1)
      [] k = 10 -> show_alt(ci, s, 1)

\* alt that tries the alternatives from the last to the first
RECURSIVE alt_last_first(_, _, _)
alt_last_first(k, ci, s) ==
    IF k > NumAlternatives THEN Fail
    ELSE first_ok(Alternative(NumAlternatives + 1 - k, ci, s),
                  alt_last_first(k + 1, ci, s))

\* alt: the first alternative from the k-th on that succeeds, on a prefix
\* of the input or on all of it
RECURSIVE alt(_, _, _)
alt(k, ci, s) ==
    IF k > NumAlternatives THEN Fail
    ELSE first_ok(Alternative(k, ci, s), alt(k + 1, ci, s))

\* all_consuming that lets unconsumed input through
all_consuming_off(r, s) == r

\* all_consuming: fails unless nothing is left
all_consuming(r, s) == IF r.ok /\ r.rest <= Len(s) THEN Fail ELSE r

levelparser(ci, s) == all_consuming(alt(1, ci, s), s)

\* "Unable to parse levelspec for "
UnableToParse ==
    <<85, 110, 97, 98, 108, 101, 32, 116, 111, 32, 112, 97, 114, 115, 101,
      32, 108, 101, 118, 101, 108, 115, 112, 101, 99, 32, 102, 111, 114,
      32>>

\* ParseError whose message leaves the input out
ParseError_without_input(text) ==
    [ok |-> FALSE, error |-> "ParseError", text |-> UnableToParse,
     levels |-> <<>>]

\* LevelSpecterError::ParseError(format!("Unable to parse levelspec for {}", input))
ParseError(text) ==
    [ok |-> FALSE, error |-> "ParseError", text |-> UnableToParse \o text,
     levels |-> <<>>]

\* the match on the parser's result in levelspec_parser
parse_outcome(r, s) ==
    IF r.ok
    THEN [ok |-> TRUE, error |-> "", text |-> <<>>, levels |-> r.out]
    ELSE ParseError(s)

levelspec_parser(ci, s) == parse_outcome(levelparser(ci, s), s)

(***************************************************************************)
(* LevelSpec                                                               *)
(***************************************************************************)
LevelSpec(show, sequence, shot) ==
    [kind |-> "Ok", show |-> show, sequence |-> sequence, shot |-> shot,
     error |-> "", text |-> <<>>]

ErrResult(e) ==
    [kind |-> "Err", show |-> None, sequence |-> None, shot |-> None,
     error |-> e.error, text |-> e.text]

Panic(msg) ==
    [kind |-> "Panic", show |-> None, sequence |-> None, shot |-> None,
     error |-> msg, text |-> <<>>]

\* the match on levels.len() in from_str
distribute(p) ==
    LET levels == p.levels
    IN  IF ~p.ok THEN ErrResult(p)
        ELSE IF Len(levels) = 3 THEN LevelSpec(levels[1], levels[2], levels[3])
        ELSE IF Len(levels) = 2 THEN LevelSpec(levels[1], levels[2], None)
        ELSE IF Len(levels) = 1 THEN LevelSpec(levels[1], None, None)
        ELSE Panic("cannot create levelspec with more than 3 levels")

\* impl FromStr for LevelSpec
from_str(ci, s) == distribute(levelspec_parser(ci, s))

\* str::to_uppercase
str_to_uppercase(text) == [k \in 1..Len(text) |-> to_uppercase(text[k])]

\* the uppercasing that rebuilds every token from its uppercased text
uppercase_any(t) ==
    IF t.type = "None" THEN t ELSE Term(str_to_uppercase(to_str(t)))

\* if let LevelType::Term(ref mut x) = field {*x = x.to_uppercase()}, the
\* field being a token or, for sequence and shot, an Option of one
uppercase_term(t) == IF t.type = "Term" THEN Term(str_to_uppercase(t.val)) ELSE t

\* set_upper that leaves the shot as it is
set_upper_without_shot(v) ==
    [v EXCEPT !.show = uppercase_term(v.show),
              !.sequence = uppercase_term(v.sequence)]

\* LevelSpec::set_upper, the value self holds afterwards
set_upper(v) ==
    [v EXCEPT !.show = uppercase_term(v.show),
              !.sequence = uppercase_term(v.sequence),
              !.shot = uppercase_term(v.shot)]

\* upper that uppercases the show only
upper_show_only(v) == [v EXCEPT !.show = uppercase_term(v.show)]

\* LevelSpec::upper, the value it returns
upper(v) ==
    [v EXCEPT !.show = uppercase_term(v.show),
              !.sequence = uppercase_term(v.sequence),
              !.shot = uppercase_term(v.shot)]

\* the case policy that uppercases in both builds
case_policy_always_upper(ci, ls) == upper(ls)

\* if cfg!(feature = "case-insensitive") {ls} else {ls.upper()}
case_policy(ci, ls) == IF ci THEN ls ELSE upper(ls)

from_show(ci, show) ==
    case_policy(ci, LevelSpec(LevelTypeFrom(show), None, None))

\* from_sequence that stores its second text as the shot
from_sequence_as_shot(ci, show, sequence) ==
    case_policy(ci, LevelSpec(LevelTypeFrom(show), None, LevelTypeFrom(sequence)))

from_sequence(ci, show, sequence) ==
    case_policy(ci, LevelSpec(LevelTypeFrom(show), LevelTypeFrom(sequence), None))

from_shot(ci, show, sequence, shot) ==
    case_policy(ci, LevelSpec(LevelTypeFrom(show), LevelTypeFrom(sequence),
                              LevelTypeFrom(shot)))

\* is_concrete that looks at the show only
is_concrete_show_only(v) == ~is_wildcard(v.show)

is_concrete(v) ==
    IF is_wildcard(v.show) THEN FALSE
    ELSE IF v.sequence # None /\ is_wildcard(v.sequence) THEN FALSE
    ELSE IF v.shot # None /\ is_wildcard(v.shot) THEN FALSE
    ELSE TRUE

\* Display for LevelSpec that writes the fields without the dots
to_string_undotted(v) ==
    IF v.sequence = None /\ v.shot # None
    THEN [panic |-> TRUE, text |-> <<>>]
    ELSE [panic |-> FALSE,
          text |-> LevelTypeDisplay(v.show)
                   \o (IF v.sequence # None THEN LevelTypeDisplay(v.sequence) ELSE <<>>)
                   \o (IF v.shot # None THEN LevelTypeDisplay(v.shot) ELSE <<>>)]

\* impl fmt::Display for LevelSpec: the text written, or the panic of the
\* last match arm
to_string(v) ==
    IF v.sequence # None /\ v.shot # None
    THEN [panic |-> FALSE,
          text |-> LevelTypeDisplay(v.show) \o DOT \o LevelTypeDisplay(v.sequence)
                   \o DOT \o LevelTypeDisplay(v.shot)]
    ELSE IF v.sequence # None /\ v.shot = None
    THEN [panic |-> FALSE,
          text |-> LevelTypeDisplay(v.show) \o DOT \o LevelTypeDisplay(v.sequence)]
    ELSE IF v.sequence = None /\ v.shot = None
    THEN [panic |-> FALSE, text |-> LevelTypeDisplay(v.show)]
    ELSE [panic |-> TRUE, text |-> <<>>]

\* Option<String>, the value of the replacer closure
NoneText == [some |-> FALSE, val |-> <<>>]
SomeText(text) == [some |-> TRUE, val |-> text]

\* {:?} of LevelName
ShowName ==
    <<83, 104, 111, 119>>
SequenceName ==
    <<83, 101, 113, 117, 101, 110, 99, 101>>
ShotName ==
    <<83, 104, 111, 116>>
LevelNames == {ShowName, SequenceName, ShotName}

RelToAbsError(msg) ==
    [kind |-> "Err", show |-> None, sequence |-> None, shot |-> None,
     error |-> "RelToAbsError", text |-> msg]

\* "Unable to retrieve ", " in rel_to_abs"
UnableToRetrieve ==
    <<85, 110, 97, 98, 108, 101, 32, 116, 111, 32, 114, 101, 116, 114, 105,
      101, 118, 101, 32>>
InRelToAbs ==
    <<32, 105, 110, 32, 114, 101, 108, 95, 116, 111, 95, 97, 98, 115>>

\* " returned by closure is relative '", "'", and the field names
ReturnedRelative ==
    <<32, 114, 101, 116, 117, 114, 110, 101, 100, 32, 98, 121, 32, 99, 108,
      111, 115, 117, 114, 101, 32, 105, 115, 32, 114, 101, 108, 97, 116,
      105, 118, 101, 32, 39>>
Quote ==
    <<39>>
ShowField ==
    <<115, 104, 111, 119>>
SequenceField ==
    <<115, 101, 113, 117, 101, 110, 99, 101>>
ShotField ==
    <<115, 104, 111, 116>>

\* the token a field holds after rel_to_abs
Replaced(t) == [kind |-> "Ok", token |-> t]

\* the field block that stores a Wildcard when the closure returns None
replace_relative_none_as_wildcard(old, got, name, field) ==
    IF ~is_relative(old) THEN Replaced(old)
    ELSE IF ~got.some THEN Replaced(Wildcard)
    ELSE IF is_relative(LevelTypeFrom(got.val))
    THEN RelToAbsError(field \o ReturnedRelative \o got.val \o Quote)
    ELSE Replaced(LevelTypeFrom(got.val))

\* one field of rel_to_abs: the token that takes the place of the old one,
\* the closure being asked for a Relative token only, or the error
replace_relative(old, got, name, field) ==
    IF ~is_relative(old) THEN Replaced(old)
    ELSE IF ~got.some
    THEN RelToAbsError(UnableToRetrieve \o name \o InRelToAbs)
    ELSE IF is_relative(LevelTypeFrom(got.val))
    THEN RelToAbsError(field \o ReturnedRelative \o got.val \o Quote)
    ELSE Replaced(LevelTypeFrom(got.val))

\* the show block that goes on with the receiver's show after an error
assign_show_ignoring_error(v, r) ==
    IF r.kind = "Err" THEN v ELSE [v EXCEPT !.show = r.token]

\* return_value.show = new_show, or the early return of the error
assign_show(v, r) == IF r.kind = "Err" THEN r ELSE [v EXCEPT !.show = r.token]
\* the sequence block that drops the new token
assign_sequence_dropped(v, r) == IF r.kind = "Err" THEN r ELSE v

assign_sequence(v, r) == IF r.kind = "Err" THEN r ELSE [v EXCEPT !.sequence = r.token]
\* the shot block that returns the fields resolved so far with the error
assign_shot_keeping_fields(v, r) ==
    IF r.kind = "Err"
    THEN [v EXCEPT !.kind = "Err", !.error = r.error, !.text = r.text]
    ELSE [v EXCEPT !.shot = r.token]

assign_shot(v, r) == IF r.kind = "Err" THEN r ELSE [v EXCEPT !.shot = r.token]

rel_to_abs_show(v, replacer) ==
    assign_show(v, replace_relative(v.show, replacer[ShowName], ShowName, ShowField))

rel_to_abs_sequence(v, replacer) ==
    IF v.kind # "Ok" THEN v
    ELSE assign_sequence(v, replace_relative(v.sequence, replacer[SequenceName],
                                             SequenceName, SequenceField))

rel_to_abs_shot(v, replacer) ==
    IF v.kind # "Ok" THEN v
    ELSE assign_shot(v, replace_relative(v.shot, replacer[ShotName], ShotName,
                                         ShotField))

\* LevelSpec::rel_to_abs: the new value, or the first error
rel_to_abs(v, replacer) ==
    rel_to_abs_shot(rel_to_abs_sequence(rel_to_abs_show(v, replacer), replacer),
                    replacer)

\* the invocation made whatever the token is
invoked_always(old, got, name) == <<[name |-> name, got |-> got]>>

\* replacer(LevelName::..), made for a Relative token only: the invocation
\* and the value the closure returned
invoked(old, got, name) ==
    IF is_relative(old) THEN <<[name |-> name, got |-> got]>> ELSE <<>>

calls_show(v, replacer) == invoked(v.show, replacer[ShowName], ShowName)

\* the sequence block that asks the closure whatever the sequence holds
calls_sequence_unconditional(v, replacer) ==
    IF v.kind # "Ok" THEN <<>>
    ELSE <<[name |-> SequenceName, got |-> replacer[SequenceName]]>>

\* v: return_value after the show block, or the error it returned
calls_sequence(v, replacer) ==
    IF v.kind # "Ok" THEN <<>>
    ELSE invoked(v.sequence, replacer[SequenceName], SequenceName)

\* v: return_value after the sequence block, or the error returned so far
calls_shot(v, replacer) ==
    IF v.kind # "Ok" THEN <<>>
    ELSE invoked(v.shot, replacer[ShotName], ShotName)

\* the invocations of the closure that rel_to_abs makes, in order
rel_to_abs_calls(v, replacer) ==
    calls_show(v, replacer)
    \o calls_sequence(rel_to_abs_show(v, replacer), replacer)
    \o calls_shot(rel_to_abs_sequence(rel_to_abs_show(v, replacer), replacer),
                  replacer)

(***************************************************************************)
(* The state machine: one call of LevelSpec::from_str on any input, in     *)
(* either build of the crate.                                              *)
(***************************************************************************)
NotCalled == [ok |-> FALSE, error |-> "", text |-> <<>>, levels |-> <<>>]
NoResult == [kind |-> "None", show |-> None, sequence |-> None, shot |-> None,
             error |-> "", text |-> <<>>]
NoCall == [args |-> <<>>, receiver |-> NoResult, calls |-> <<>>]

Init ==
    /\ input = <<>>
    /\ case_insensitive \in BOOLEAN
    /\ pc = "start"
    /\ parsed = NotCalled
    /\ result = NoResult
    /\ call = NoCall

\* LevelSpec::from_str(s), for any input s
FromStr ==
    /\ pc = "start"
    /\ \E s \in Inputs :
          /\ input' = s
          /\ parsed' = levelspec_parser(case_insensitive, s)
          /\ result' = distribute(parsed')
    /\ pc' = "done"
    /\ call' = NoCall
    /\ UNCHANGED case_insensitive

Next == FromStr

Spec == Init /\ [][Next]_vars

(***************************************************************************)
(* The state machine of one LevelSpec value: it is constructed by          *)
(* LevelSpec::new or by one of the part constructors, and then             *)
(* normalized and resolved in any order.                                   *)
(***************************************************************************)
MaxNewChunks == 3

\* the strings handed to LevelSpec::new
NewInputs == {Flatten(cs) : cs \in UNION {[1..n -> Chunks] : n \in 0..MaxNewChunks}}

\* the strings handed to the part constructors
Texts == Chunks \cup {<<>>}

\* the values a replacer closure returns, and the closures
ReplacerValues == {NoneText, SomeText(<<>>), SomeText(PERCENT), SomeText(<<65>>),
                   SomeText(assetdev)}
Replacers == [LevelNames -> ReplacerValues]

\* a LevelSpec exists
Built == pc # "start" /\ result.kind = "Ok"

\* LevelSpec::new(s)
New ==
    /\ pc = "start"
    /\ \E s \in NewInputs :
          /\ input' = s
          /\ parsed' = levelspec_parser(case_insensitive, s)
          /\ result' = distribute(parsed')
    /\ pc' = "new"
    /\ call' = NoCall
    /\ UNCHANGED case_insensitive

\* LevelSpec::from_show(show)
FromShow ==
    /\ pc = "start"
    /\ \E show \in Texts :
          /\ result' = from_show(case_insensitive, show)
          /\ call' = [NoCall EXCEPT !.args = <<show>>]
    /\ pc' = "from_show"
    /\ UNCHANGED <<input, case_insensitive, parsed>>

\* LevelSpec::from_sequence(show, sequence)
FromSequence ==
    /\ pc = "start"
    /\ \E show, sequence \in Texts :
          /\ result' = from_sequence(case_insensitive, show, sequence)
          /\ call' = [NoCall EXCEPT !.args = <<show, sequence>>]
    /\ pc' = "from_sequence"
    /\ UNCHANGED <<input, case_insensitive, parsed>>

\* LevelSpec::from_shot(show, sequence, shot)
FromShot ==
    /\ pc = "start"
    /\ \E show, sequence, shot \in Texts :
          /\ result' = from_shot(case_insensitive, show, sequence, shot)
          /\ call' = [NoCall EXCEPT !.args = <<show, sequence, shot>>]
    /\ pc' = "from_shot"
    /\ UNCHANGED <<input, case_insensitive, parsed>>

\* v.set_upper()
SetUpper ==
    /\ Built
    /\ result' = set_upper(result)
    /\ call' = NoCall
    /\ pc' = "set_upper"
    /\ UNCHANGED <<input, case_insensitive, parsed>>

\* v = v.upper()
Upper ==
    /\ Built
    /\ result' = upper(result)
    /\ call' = NoCall
    /\ pc' = "upper"
    /\ UNCHANGED <<input, case_insensitive, parsed>>

\* v = v.rel_to_abs(replacer)?
RelToAbs ==
    /\ Built
    /\ \E replacer \in Replacers :
          /\ result' = rel_to_abs(result, replacer)
          /\ call' = [args |-> <<>>, receiver |-> result,
                      calls |-> rel_to_abs_calls(result, replacer)]
    /\ pc' = "rel_to_abs"
    /\ UNCHANGED <<input, case_insensitive, parsed>>

NextOps ==
    \/ New
    \/ FromShow
    \/ FromSequence
    \/ FromShot
    \/ SetUpper
    \/ Upper
    \/ RelToAbs

SpecOps == Init /\ [][NextOps]_vars

(***************************************************************************)
(* The grammar of the notation, stated on whole components; the            *)
(* properties below compare the recognizer with it.                        *)
(***************************************************************************)
IsLetter(ci, c) == IF ci THEN is_alpha(c) ELSE is_alpha_upper(c)
IsLetterOrDigit(ci, c) == IsLetter(ci, c) \/ is_dec_digit(c)

\* one letter followed by letters and digits, in the case the build permits
IsName(ci, t) ==
    /\ Len(t) >= 1
    /\ IsLetter(ci, t[1])
    /\ \A k \in 1..Len(t) : IsLetterOrDigit(ci, t[k])

IsDigits(t) == Len(t) >= 1 /\ \A k \in 1..Len(t) : is_dec_digit(t[k])

\* the ASSETDEV keyword as the build matches it
IsKeyword(ci, t) ==
    IF ci THEN /\ Len(t) = Len(ASSETDEV)
               /\ \A k \in 1..Len(t) : to_uppercase(t[k]) = ASSETDEV[k]
    ELSE t = ASSETDEV

IsShowText(ci, t) == IsName(ci, t) \/ t = PERCENT
IsSeqText(ci, t) == IsName(ci, t) \/ t = PERCENT

\* the dot-separated components of a string
RECURSIVE Components(_)
Components(s) ==
    LET dots == {k \in 1..Len(s) : s[k] = DOT[1]}
    IN  IF dots = {} THEN <<s>>
        ELSE LET d == Min(dots)
             IN  <<SubSeq(s, 1, d - 1)>> \o Components(SubSeq(s, d + 1, Len(s)))

Done == pc = "done"
Comps == Components(input)

\* the alternatives that match the whole input
FullMatches(ci, s) ==
    {k \in 1..NumAlternatives :
        Alternative(k, ci, s).ok /\ Alternative(k, ci, s).rest = Len(s) + 1}

\* the alternatives that match a proper prefix of the input only
PrefixMatches(ci, s) ==
    {k \in 1..NumAlternatives :
        Alternative(k, ci, s).ok /\ Alternative(k, ci, s).rest <= Len(s)}

(***************************************************************************)
(* C1: for every input the recognizer returns a failure or 1, 2 or 3       *)
(* tokens, never more, so from_str returns Ok or a ParseError and never    *)
(* reaches the "more than 3 levels" panic.                                 *)
(* Violated: fold_many1 in rel_seq_rel_alt repeats ".<seq>.".               *)
(***************************************************************************)
C1_AtMostThreeLevels ==
    Done => /\ parsed.ok => Len(parsed.levels) \in 1..3
            /\ result.kind \in {"Ok", "Err"}

(***************************************************************************)
(* C2: the recognizer succeeds iff some alternative matches the whole      *)
(* input, and then returns the tokens of the first alternative, in alt's   *)
(* order, that matches the whole input.                                    *)
(***************************************************************************)
C2_FirstFullMatchWins ==
    Done =>
        LET full == FullMatches(case_insensitive, input)
        IN  /\ parsed.ok <=> full # {}
            /\ full # {} =>
                 parsed.levels = Alternative(Min(full), case_insensitive, input).out

\* a successful parse in which another alternative matches a proper prefix
C2_Witness ==
    /\ Done
    /\ parsed.ok
    /\ PrefixMatches(case_insensitive, input) # {}

(***************************************************************************)
(* C3: an input in which a dot-separated component holds '%' together with *)
(* another character is rejected with a ParseError.                        *)
(***************************************************************************)
HasMixedWildcard(s) ==
    \E k \in 1..Len(Components(s)) :
        LET c == Components(s)[k]
        IN  Len(c) >= 2 /\ \E j \in 1..Len(c) : c[j] = PERCENT[1]

C3_MixedWildcardRejected ==
    Done /\ HasMixedWildcard(input) =>
        /\ ~parsed.ok
        /\ result.kind = "Err"
        /\ result.error = "ParseError"

\* such an input of which an alternative matched a prefix
C3_Witness ==
    /\ Done
    /\ HasMixedWildcard(input)
    /\ PrefixMatches(case_insensitive, input) # {}
    /\ result.kind = "Err"

(***************************************************************************)
(* C4: every string s of the show grammar parses to show = Term(s),        *)
(* sequence = None, shot = None.                                           *)
(***************************************************************************)
C4_ShowOnly ==
    Done /\ IsName(case_insensitive, input) =>
        result = LevelSpec(Term(input), None, None)

\* a show of letters and digits that was parsed
C4_Witness ==
    /\ Done
    /\ IsName(case_insensitive, input)
    /\ \E k \in 1..Len(input) : is_dec_digit(input[k])
    /\ result.kind = "Ok"

(***************************************************************************)
(* C5: a shot that begins with a letter is accepted only after the         *)
(* ASSETDEV keyword: show.seq.shot and .seq.shot fail when seq is another  *)
(* name or '%' and shot starts with a letter, and show.ASSETDEV.shot with  *)
(* a name as shot gives three Terms.                                       *)
(* Violated: the case-insensitive parse_assetdev_seq also accepts ".%".    *)
(***************************************************************************)
C5_AlphaShotOnlyAfterAssetdev ==
    Done /\ Len(Comps) = 3 =>
        LET ci == case_insensitive
            show == Comps[1]
            seq == Comps[2]
            shot == Comps[3]
        IN  /\ ( /\ IsShowText(ci, show) \/ show = <<>>
                 /\ IsSeqText(ci, seq)
                 /\ ~IsKeyword(ci, seq)
                 /\ Len(shot) >= 1
                 /\ is_alpha(shot[1]) ) => ~parsed.ok
            /\ ( /\ IsName(ci, show)
                 /\ IsKeyword(ci, seq)
                 /\ IsName(ci, shot) ) =>
                     /\ parsed.ok
                     /\ parsed.levels = <<Term(show), Term(seq), Term(shot)>>

(***************************************************************************)
(* C6 as claimed: after the ASSETDEV keyword a shot of decimal digits is   *)
(* rejected, in show.ASSETDEV.<digits> and in .ASSETDEV.<digits>.          *)
(***************************************************************************)
DigitsAfterAssetdev ==
    /\ Len(Comps) = 3
    /\ IsShowText(case_insensitive, Comps[1]) \/ Comps[1] = <<>>
    /\ IsKeyword(case_insensitive, Comps[2])
    /\ IsDigits(Comps[3])

C6_DigitsAfterAssetdevRejected ==
    Done /\ DigitsAfterAssetdev => ~parsed.ok

(***************************************************************************)
(* C6 as amended: after the ASSETDEV keyword a shot of decimal digits is   *)
(* accepted as well: show.ASSETDEV.<digits> and .ASSETDEV.<digits> parse   *)
(* to the show token (or Relative), Term(keyword) and Term(digits).        *)
(***************************************************************************)
C6_DigitsAfterAssetdevAccepted ==
    Done /\ DigitsAfterAssetdev =>
        /\ parsed.ok
        /\ parsed.levels =
             <<LevelTypeFrom(Comps[1]), Term(Comps[2]), Term(Comps[3])>>
        /\ result = LevelSpec(LevelTypeFrom(Comps[1]), Term(Comps[2]), Term(Comps[3]))

\* show.ASSETDEV.<digits> with a named show, parsed
C6_Witness ==
    /\ Done
    /\ DigitsAfterAssetdev
    /\ IsName(case_insensitive, Comps[1])
    /\ result.kind = "Ok"

(***************************************************************************)
(* C7: for every sequence name q (names that begin with ASSETDEV           *)
(* included) or '%', "." q parses to [Relative, token(q)].                 *)
(* Violated: parse_rel_assetdev_seq takes the prefix ".ASSETDEV".          *)
(***************************************************************************)
C7_RelSeqOnly ==
    Done /\ Len(Comps) = 2 /\ Comps[1] = <<>> /\ IsSeqText(case_insensitive, Comps[2]) =>
        /\ parsed.ok
        /\ parsed.levels = <<Relative, LevelTypeFrom(Comps[2])>>

(***************************************************************************)
(* C8: for every sequence name q or '%', "." q "." parses to              *)
(* [Relative, token(q), Relative].                                         *)
(* Violated for the names that begin with ASSETDEV, as C7.                 *)
(***************************************************************************)
C8_RelSeqRel ==
    Done /\ Len(Comps) = 3 /\ Comps[1] = <<>> /\ Comps[3] = <<>>
         /\ IsSeqText(case_insensitive, Comps[2]) =>
        /\ parsed.ok
        /\ parsed.levels = <<Relative, LevelTypeFrom(Comps[2]), Relative>>

(***************************************************************************)
(* C9: for every show s (a name or '%'), s "." parses to                   *)
(* [token(s), Relative], s ".." to [token(s), Relative, Relative], and     *)
(* s ".." followed by anything more is rejected.                           *)
(***************************************************************************)
C9_ShowThenRelative ==
    Done =>
        \A n \in 1..Len(input) :
            LET s == SubSeq(input, 1, n)
                rest == SubSeq(input, n + 1, Len(input))
            IN  IsShowText(case_insensitive, s) =>
                  /\ rest = DOT =>
                       /\ parsed.ok
                       /\ parsed.levels = <<LevelTypeFrom(s), Relative>>
                  /\ rest = DOTDOT =>
                       /\ parsed.ok
                       /\ parsed.levels = <<LevelTypeFrom(s), Relative, Relative>>
                  /\ (Len(rest) > 2 /\ SubSeq(rest, 1, 2) = DOTDOT) => ~parsed.ok

\* a show followed by two dots, parsed to three tokens
C9_Witness ==
    /\ Done
    /\ Len(input) >= 3
    /\ IsShowText(case_insensitive, SubSeq(input, 1, Len(input) - 2))
    /\ SubSeq(input, Len(input) - 1, Len(input)) = DOTDOT
    /\ parsed.ok
    /\ Len(parsed.levels) = 3

(***************************************************************************)
(* C10: in a successful parse a show or sequence Term is a name, a shot    *)
(* Term is decimal digits or, only after an ASSETDEV sequence, a name; so  *)
(* an input with a space, an underscore or a show or sequence component    *)
(* that starts with a digit is rejected.                                   *)
(* Violated: the case-insensitive build accepts a name as shot after '%'.  *)
(***************************************************************************)
C10_TermsFitGrammar ==
    Done =>
        LET ci == case_insensitive
            levels == parsed.levels
            n == Len(levels)
        IN  /\ parsed.ok =>
                /\ (n >= 1 /\ levels[1].type = "Term") => IsName(ci, levels[1].val)
                /\ (n >= 2 /\ levels[2].type = "Term") => IsName(ci, levels[2].val)
                /\ (n >= 3 /\ levels[3].type = "Term") =>
                     \/ IsDigits(levels[3].val)
                     \/ /\ IsName(ci, levels[3].val)
                        /\ levels[2].type = "Term"
                        /\ IsKeyword(ci, levels[2].val)
            /\ (\E k \in 1..Len(input) : input[k] \in {32, 95}) => ~parsed.ok
            /\ (\E k \in 1..Len(Comps) :
                    k <= 2 /\ Len(Comps[k]) >= 1 /\ is_dec_digit(Comps[k][1]))
                 => ~parsed.ok

(***************************************************************************)
(* C11: every failed parse of an input s yields one ParseError whose       *)
(* message is "Unable to parse levelspec for " followed by s unmodified,   *)
(* and returns no tokens, also when some alternative matched a prefix.     *)
(***************************************************************************)
C11_FailureCarriesInput ==
    Done /\ ~parsed.ok =>
        /\ parsed.error = "ParseError"
        /\ parsed.text = UnableToParse \o input
        /\ parsed.levels = <<>>
        /\ result.kind = "Err"
        /\ result.error = "ParseError"
        /\ result.text = UnableToParse \o input
        /\ result.show = None /\ result.sequence = None /\ result.shot = None

\* a failed parse of a non-empty input of which an alternative matched a prefix
C11_Witness ==
    /\ Done
    /\ ~parsed.ok
    /\ input # <<>>
    /\ PrefixMatches(case_insensitive, input) # {}
    /\ result.text = UnableToParse \o input

(***************************************************************************)
(* C12: in the strict build every input that holds a lowercase letter is   *)
(* rejected.                                                               *)
(***************************************************************************)
HasLowercase(s) == \E k \in 1..Len(s) : is_alpha_lower(s[k])

C12_StrictRejectsLowercase ==
    Done /\ ~case_insensitive /\ HasLowercase(input) => ~parsed.ok

\* an input the strict build rejects and the case-insensitive build accepts
C12_Witness ==
    /\ Done
    /\ ~case_insensitive
    /\ HasLowercase(input)
    /\ ~parsed.ok
    /\ levelspec_parser(TRUE, input).ok

(***************************************************************************)
(* Predicates on LevelSpec values.                                         *)
(***************************************************************************)
\* the tokens of the fields that are present
Present(v) == {v.show, v.sequence, v.shot} \ {None}

AllTerms(v) == \A t \in Present(v) : is_term(t)

\* the value came from LevelSpec::new or a part constructor, nothing since
Constructed == Built /\ pc \in {"new", "from_show", "from_sequence", "from_shot"}

\* parse(v.to_string()) == Ok(v)
RoundTrips(ci, v) == ~to_string(v).panic /\ from_str(ci, to_string(v).text) = v

\* every Term of v fits the grammar of its position
FitsGrammar(ci, v) ==
    /\ is_term(v.show) => IsName(ci, v.show.val)
    /\ is_term(v.sequence) => IsName(ci, v.sequence.val)
    /\ is_term(v.shot) =>
         \/ IsDigits(v.shot.val)
         \/ /\ IsName(ci, v.shot.val)
            /\ is_term(v.sequence)
            /\ IsKeyword(ci, v.sequence.val)

(***************************************************************************)
(* C13 as stated: every LevelSpec built by a parse or by a part            *)
(* constructor whose present fields are all Terms is returned by parsing   *)
(* its rendering.                                                          *)
(* Violated: the part constructors store any text.                         *)
(***************************************************************************)
C13_RoundTripOfAllTerms ==
    Constructed /\ AllTerms(result) => RoundTrips(case_insensitive, result)

(***************************************************************************)
(* C13 amended: an all-Term LevelSpec that a parse returned is returned by *)
(* parsing its rendering; one that a part constructor returned is, exactly *)
(* when each of its Terms fits the grammar of its position.                *)
(***************************************************************************)
C13_RoundTripOfParsedTerms ==
    Constructed /\ AllTerms(result) =>
        IF pc = "new"
        THEN RoundTrips(case_insensitive, result)
        ELSE RoundTrips(case_insensitive, result)
               <=> FitsGrammar(case_insensitive, result)

\* a part constructor has built an all-Term value that does not round trip
C13_Witness ==
    /\ Built
    /\ pc = "from_shot"
    /\ AllTerms(result)
    /\ ~FitsGrammar(case_insensitive, result)
    /\ ~RoundTrips(case_insensitive, result)

(***************************************************************************)
(* C14: for every input that from_str parses to a LevelSpec v, the         *)
(* rendering of v is the input, character for character: the present       *)
(* fields joined with '.', Relative written as nothing and Wildcard as     *)
(* '%'.                                                                    *)
(***************************************************************************)
C14_RenderingIsInput ==
    Done /\ result.kind = "Ok" =>
        /\ ~to_string(result).panic
        /\ to_string(result).text = input
        /\ \A t \in Present(result) :
             /\ is_relative(t) => LevelTypeDisplay(t) = <<>>
             /\ is_wildcard(t) => LevelTypeDisplay(t) = PERCENT

\* a parsed value with a Relative, a Wildcard and a Term, rendered
C14_Witness ==
    /\ Done
    /\ result.kind = "Ok"
    /\ \E a, b, c \in Present(result) :
          is_relative(a) /\ is_wildcard(b) /\ is_term(c)
    /\ to_string(result).text = input

(***************************************************************************)
(* C15: when an input of 1, 2 or 3 dot-separated components parses, the    *)
(* result is from_show, from_sequence or from_shot of its components, a    *)
(* component being a name, digits, '%' or empty.                           *)
(***************************************************************************)
C15_ParseAgreesWithConstructors ==
    Done /\ result.kind = "Ok" =>
        /\ Len(Comps) \in 1..3
        /\ Len(Comps) = 1 => result = from_show(case_insensitive, Comps[1])
        /\ Len(Comps) = 2 =>
             result = from_sequence(case_insensitive, Comps[1], Comps[2])
        /\ Len(Comps) = 3 =>
             result = from_shot(case_insensitive, Comps[1], Comps[2], Comps[3])

\* a parsed input of three components, one empty, one '%' and one with a
\* lowercase letter
C15_Witness ==
    /\ Done
    /\ result.kind = "Ok"
    /\ Len(Comps) = 3
    /\ \E i, j, k \in 1..3 :
          Comps[i] = <<>> /\ Comps[j] = PERCENT /\ HasLowercase(Comps[k])
    /\ result = from_shot(case_insensitive, Comps[1], Comps[2], Comps[3])

(***************************************************************************)
(* C16: after any sequence of new, from_show, from_sequence, from_shot,    *)
(* set_upper, upper and rel_to_abs, a LevelSpec with a shot has a          *)
(* sequence, so rendering never reaches the "non legal levelspec" panic.   *)
(***************************************************************************)
C16_ShotImpliesSequence ==
    Built =>
        /\ result.shot # None => result.sequence # None
        /\ ~to_string(result).panic

\* a value with a shot, after normalization or resolution
C16_Witness ==
    /\ Built
    /\ pc \in {"set_upper", "upper", "rel_to_abs"}
    /\ result.shot # None
    /\ result.sequence # None

(***************************************************************************)
(* C17: text-to-token conversion is total and unambiguous ('' gives        *)
(* Relative, '%' gives Wildcard, any other text gives Term of it), and     *)
(* after any sequence of operations no Term holds '' or '%', so every      *)
(* token converted to text and back is the same token.                     *)
(***************************************************************************)
\* the conversion on every text of the model
ConversionIsUnambiguous ==
    \A text \in Texts \cup NewInputs :
        /\ text = <<>> <=> LevelTypeFrom(text) = Relative
        /\ text = PERCENT <=> LevelTypeFrom(text) = Wildcard
        /\ text \notin {<<>>, PERCENT} <=> LevelTypeFrom(text) = Term(text)

C17_TokenTextRoundTrip ==
    /\ ConversionIsUnambiguous
    /\ Built =>
          \A t \in Present(result) :
              /\ is_term(t) => t.val \notin {<<>>, PERCENT}
              /\ LevelTypeFrom(to_str(t)) = t

\* a resolved value that holds a Term and a Wildcard the closure supplied
C17_Witness ==
    /\ Built
    /\ pc = "rel_to_abs"
    /\ \E a, b \in Present(result) : is_term(a) /\ is_wildcard(b)

(***************************************************************************)
(* C18: is_concrete is false exactly when a present show, sequence or shot *)
(* token is Wildcard; exchanging a token that is not a Wildcard for        *)
(* Relative, or a Relative for a Term, never changes the answer.           *)
(***************************************************************************)
C18_ConcreteIffNoWildcard ==
    Built =>
        /\ ~is_concrete(result) <=> \E t \in Present(result) : is_wildcard(t)
        /\ ~is_wildcard(result.show) =>
             /\ is_concrete([result EXCEPT !.show = Relative]) = is_concrete(result)
             /\ is_concrete([result EXCEPT !.show = Term(<<65>>)]) = is_concrete(result)
        /\ (result.sequence # None /\ ~is_wildcard(result.sequence)) =>
             /\ is_concrete([result EXCEPT !.sequence = Relative]) = is_concrete(result)
             /\ is_concrete([result EXCEPT !.sequence = Term(<<65>>)]) = is_concrete(result)
        /\ (result.shot # None /\ ~is_wildcard(result.shot)) =>
             /\ is_concrete([result EXCEPT !.shot = Relative]) = is_concrete(result)
             /\ is_concrete([result EXCEPT !.shot = Term(<<48>>)]) = is_concrete(result)

\* a value whose only Wildcard is its shot, beside a Relative
C18_Witness ==
    /\ Built
    /\ is_relative(result.show)
    /\ ~is_wildcard(result.sequence)
    /\ is_wildcard(result.shot)
    /\ ~is_concrete(result)

(***************************************************************************)
(* C19: case normalization is idempotent, and set_upper and upper give the *)
(* same value.                                                             *)
(***************************************************************************)
C19_UpperIdempotent ==
    Built =>
        /\ upper(upper(result)) = upper(result)
        /\ set_upper(set_upper(result)) = set_upper(result)
        /\ set_upper(result) = upper(result)
        /\ pc \in {"set_upper", "upper"} =>
             upper(result) = result /\ set_upper(result) = result

\* a normalized value with a Term in every field that holds a letter
C19_Witness ==
    /\ Built
    /\ pc = "set_upper"
    /\ is_term(result.show) /\ is_term(result.sequence) /\ is_term(result.shot)
    /\ \E k \in 1..Len(result.shot.val) : is_alpha(result.shot.val[k])
    /\ case_insensitive

(***************************************************************************)
(* C20: set_upper and upper change only Term payloads: a Wildcard or       *)
(* Relative token stays the same token, an absent field stays absent, a    *)
(* Term stays a Term, and is_concrete is unchanged.                        *)
(***************************************************************************)
NormalizationFrame(old, new) ==
    /\ ~is_term(old) => new = old
    /\ is_term(old) => is_term(new) /\ new.val = str_to_uppercase(old.val)

C20_UpperFrame ==
    [][(SetUpper \/ Upper) =>
          /\ result'.kind = "Ok"
          /\ NormalizationFrame(result.show, result'.show)
          /\ NormalizationFrame(result.sequence, result'.sequence)
          /\ NormalizationFrame(result.shot, result'.shot)
          /\ is_concrete(result') = is_concrete(result)]_vars

\* a normalized value with a Wildcard, a Relative and an absent field
C20_Witness ==
    /\ Built
    /\ pc \in {"set_upper", "upper"}
    /\ \E a, b \in Present(result) : is_wildcard(a) /\ is_relative(b)
    /\ result.shot = None

(***************************************************************************)
(* C21: each part constructor applies the case policy of the build to      *)
(* every input: the strict build stores the uppercase of each Term input,  *)
(* so that the result is the result for the uppercased inputs, and the     *)
(* case-insensitive build stores the inputs as given.                      *)
(***************************************************************************)
\* the token a part constructor stores for one input
Stored(ci, text) ==
    IF ci \/ LevelTypeFrom(text) \in {Relative, Wildcard}
    THEN LevelTypeFrom(text)
    ELSE Term(str_to_uppercase(text))

C21_ConstructorsApplyCasePolicy ==
    LET ci == case_insensitive
        a == call.args
    IN  /\ (Built /\ pc = "from_show") =>
             /\ Len(a) = 1
             /\ result = LevelSpec(Stored(ci, a[1]), None, None)
             /\ ~ci => result = from_show(ci, str_to_uppercase(a[1]))
        /\ (Built /\ pc = "from_sequence") =>
             /\ Len(a) = 2
             /\ result = LevelSpec(Stored(ci, a[1]), Stored(ci, a[2]), None)
             /\ ~ci => result = from_sequence(ci, str_to_uppercase(a[1]),
                                              str_to_uppercase(a[2]))
        /\ (Built /\ pc = "from_shot") =>
             /\ Len(a) = 3
             /\ result = LevelSpec(Stored(ci, a[1]), Stored(ci, a[2]),
                                   Stored(ci, a[3]))
             /\ ~ci => result = from_shot(ci, str_to_uppercase(a[1]),
                                          str_to_uppercase(a[2]),
                                          str_to_uppercase(a[3]))

\* the strict build has stored a lowercase shot in uppercase
C21_Witness ==
    /\ Built
    /\ pc = "from_shot"
    /\ ~case_insensitive
    /\ call.args[3] = assetdev
    /\ result.shot = Term(ASSETDEV)

(***************************************************************************)
(* Predicates on a call of rel_to_abs: call.receiver is the receiver,      *)
(* call.calls the invocations of the closure, result what was returned.    *)
(***************************************************************************)
Resolved == pc = "rel_to_abs"

\* the field of a LevelSpec that a LevelName names
Field(v, name) ==
    CASE name = ShowName -> v.show
      [] name = SequenceName -> v.sequence
      [] name = ShotName -> v.shot

LevelNameOrder == <<ShowName, SequenceName, ShotName>>

\* the names the closure was invoked with, in order
CalledNames(calls) == [k \in 1..Len(calls) |-> calls[k].name]

\* the value the closure returned for a name it was invoked with
Answer(calls, name) ==
    calls[CHOOSE k \in 1..Len(calls) : calls[k].name = name].got

\* the positions, in show, sequence, shot order, of the Relative fields
RelativePositions(v) == {k \in 1..3 : is_relative(Field(v, LevelNameOrder[k]))}

\* the Relative fields for which the closure gives None or the empty string
FailingPositions(v, replacer) ==
    {k \in RelativePositions(v) :
        replacer[LevelNameOrder[k]] \in {NoneText, SomeText(<<>>)}}

(***************************************************************************)
(* C22: a successful rel_to_abs returns a LevelSpec in which every field   *)
(* that was Relative holds the token made of the closure's value for its   *)
(* LevelName (Wildcard for '%', else a Term), every other field is the     *)
(* receiver's and an absent field is absent; "..0" resolved with show "A"  *)
(* and sequence "A" is from_shot("A", "A", "0").                           *)
(***************************************************************************)
C22_ResolvedFields ==
    /\ (Resolved /\ result.kind = "Ok") =>
          \A name \in LevelNames :
              LET old == Field(call.receiver, name)
                  new == Field(result, name)
              IN  IF is_relative(old)
                  THEN /\ name \in {call.calls[k].name : k \in 1..Len(call.calls)}
                       /\ Answer(call.calls, name).some
                       /\ new = LevelTypeFrom(Answer(call.calls, name).val)
                       /\ new = Wildcard <=> Answer(call.calls, name).val = PERCENT
                       /\ new # Wildcard => new = Term(Answer(call.calls, name).val)
                  ELSE new = old
    /\ rel_to_abs(from_str(case_insensitive, DOTDOT \o <<48>>),
                  [n \in LevelNames |->
                      IF n = ShotName THEN NoneText ELSE SomeText(<<65>>)])
         = from_shot(case_insensitive, <<65>>, <<65>>, <<48>>)

\* a success that replaced a Relative by a Wildcard, kept a Wildcard and
\* left the shot absent
C22_Witness ==
    /\ Resolved
    /\ result.kind = "Ok"
    /\ is_relative(call.receiver.show)
    /\ is_wildcard(call.receiver.sequence)
    /\ call.receiver.shot = None
    /\ result.show = Wildcard
    /\ result.sequence = Wildcard
    /\ result.shot = None

\* the name of a field as the "is relative" message writes it
FieldText(name) ==
    CASE name = ShowName -> ShowField
      [] name = SequenceName -> SequenceField
      [] name = ShotName -> ShotField

\* "Unable to retrieve <LevelName> in rel_to_abs"
MissingMessage(name) == UnableToRetrieve \o name \o InRelToAbs

\* "<field> returned by closure is relative '<value>'"
StillRelativeMessage(name, val) == FieldText(name) \o ReturnedRelative \o val \o Quote

(***************************************************************************)
(* C23: when the closure returns None for a Relative field of the          *)
(* receiver, rel_to_abs returns a RelToAbsError whose message names that   *)
(* field's LevelName, and not Ok.  For a closure that fails on several     *)
(* Relative fields this is the first of them in show, sequence, shot       *)
(* order: the closure is not asked about the later ones.                   *)
(***************************************************************************)
C23_NoneFailsNamingField ==
    /\ Resolved =>
          \A k \in 1..Len(call.calls) :
              call.calls[k].got = NoneText =>
                  /\ result.kind = "Err"
                  /\ result.error = "RelToAbsError"
                  /\ result.text = MissingMessage(call.calls[k].name)
    /\ Built =>
          \A replacer \in Replacers :
              LET failing == FailingPositions(result, replacer)
                  out == rel_to_abs(result, replacer)
              IN  (\E k \in RelativePositions(result) :
                       replacer[LevelNameOrder[k]] = NoneText) =>
                      /\ out.kind = "Err"
                      /\ out.error = "RelToAbsError"
                      /\ replacer[LevelNameOrder[Min(failing)]] = NoneText =>
                           out.text = MissingMessage(LevelNameOrder[Min(failing)])

\* a call that resolved the show and failed on the sequence, for which the
\* closure returned None
C23_Witness ==
    /\ Resolved
    /\ result.kind = "Err"
    /\ Len(call.calls) = 2
    /\ call.calls[1].got.some
    /\ call.calls[2].name = SequenceName
    /\ call.calls[2].got = NoneText
    /\ result.text = MissingMessage(SequenceName)

(***************************************************************************)
(* C24: when the closure returns the empty string for a Relative field of  *)
(* the receiver, rel_to_abs stores no Relative token but returns a         *)
(* RelToAbsError that says the value returned for that field is relative,  *)
(* with the field and the value.  For a closure that fails on several      *)
(* Relative fields this is the first of them in show, sequence, shot       *)
(* order.                                                                  *)
(***************************************************************************)
C24_EmptyFailsNamingField ==
    /\ Resolved =>
          \A k \in 1..Len(call.calls) :
              call.calls[k].got = SomeText(<<>>) =>
                  /\ result.kind = "Err"
                  /\ result.error = "RelToAbsError"
                  /\ result.text = StillRelativeMessage(call.calls[k].name, <<>>)
                  /\ result.show = None /\ result.sequence = None
                  /\ result.shot = None
    /\ Built =>
          \A replacer \in Replacers :
              LET failing == FailingPositions(result, replacer)
                  out == rel_to_abs(result, replacer)
              IN  (\E k \in RelativePositions(result) :
                       replacer[LevelNameOrder[k]] = SomeText(<<>>)) =>
                      /\ out.kind = "Err"
                      /\ out.error = "RelToAbsError"
                      /\ replacer[LevelNameOrder[Min(failing)]] = SomeText(<<>>) =>
                           out.text
                             = StillRelativeMessage(LevelNameOrder[Min(failing)], <<>>)

\* a call that resolved the show and the sequence and failed on the shot,
\* for which the closure returned the empty string
C24_Witness ==
    /\ Resolved
    /\ result.kind = "Err"
    /\ Len(call.calls) = 3
    /\ call.calls[3].name = ShotName
    /\ call.calls[3].got = SomeText(<<>>)
    /\ result.text = StillRelativeMessage(ShotName, <<>>)

\* the LevelNames of the Relative fields, in show, sequence, shot order
RelativeNames(v) == SelectSeq(LevelNameOrder, LAMBDA n : is_relative(Field(v, n)))

\* the closure's value makes rel_to_abs return an error
IsFailure(got) == got \in {NoneText, SomeText(<<>>)}

(***************************************************************************)
(* C25 as stated: in every call of rel_to_abs the closure is invoked       *)
(* exactly once for each present field that holds Relative, for no other   *)
(* field, in show, sequence, shot order.                                   *)
(* Violated: a call that fails returns at the failing field and does not   *)
(* ask about the Relative fields after it.                                 *)
(***************************************************************************)
C25_InvokedOncePerRelativeField ==
    Resolved => CalledNames(call.calls) = RelativeNames(call.receiver)

(***************************************************************************)
(* C25 amended: the closure is invoked at most once per field, for         *)
(* Relative present fields only and in show, sequence, shot order; a call  *)
(* that succeeds invokes it exactly once for each Relative field, a call   *)
(* that fails invokes it for the Relative fields up to the first one for   *)
(* which it returns None or the empty string, and for none after it.       *)
(***************************************************************************)
C25_InvokedInOrderUntilFailure ==
    Resolved =>
        LET names == RelativeNames(call.receiver)
            n == Len(call.calls)
        IN  /\ n <= Len(names)
            /\ CalledNames(call.calls) = SubSeq(names, 1, n)
            /\ \A k \in 1..n : call.calls[k].name \in LevelNames
            /\ \A k \in 1..(n - 1) : ~IsFailure(call.calls[k].got)
            /\ result.kind = "Ok" =>
                 /\ n = Len(names)
                 /\ \A k \in 1..n : ~IsFailure(call.calls[k].got)
            /\ result.kind = "Err" => n >= 1 /\ IsFailure(call.calls[n].got)

\* a failed call that did not ask about the last two of three Relative fields
C25_Witness ==
    /\ Resolved
    /\ result.kind = "Err"
    /\ Len(RelativeNames(call.receiver)) = 3
    /\ Len(call.calls) = 1

C27_ResolvedIsFixpoint ==
    /\ (Resolved /\ result.kind = "Ok") =>
          /\ \A t \in Present(result) : ~is_relative(t)
          /\ \A replacer \in Replacers :
                /\ rel_to_abs(result, replacer) = result
                /\ rel_to_abs_calls(result, replacer) = <<>>
    /\ (Resolved /\ result.kind = "Ok" /\ RelativeNames(call.receiver) = <<>>) =>
          /\ result = call.receiver
          /\ call.calls = <<>>

\* rel_to_abs applied again to a value it returned: in the strict build a
\* lowercase Term can only be a value of the closure
C27_Witness ==
    /\ Resolved
    /\ result.kind = "Ok"
    /\ ~case_insensitive
    /\ \E t \in Present(result) : is_term(t) /\ HasLowercase(t.val)
    /\ call.receiver = result
    /\ call.calls = <<>>

(***************************************************************************)
(* C28: the relative-show form and the full form agree on the rest of the  *)
(* input: for every show X (a name or '%') and every R made of '.', a      *)
(* non-empty sequence part and, optionally, '.' and an optional shot part, *)
(* R parses iff X followed by R parses, and then with the same sequence    *)
(* and shot tokens.                                                        *)
(* Violated: ".ASSETDEV0" is rejected and "A.ASSETDEV0" accepted (C7); the *)
(* case-insensitive build accepts "A.%.A" and rejects ".%.A" (C5).         *)
(***************************************************************************)
Shows == {<<65>>, PERCENT}

\* '.' sequence-part [ '.' [ shot-part ] ]
IsRelativeShowForm(s) ==
    /\ Len(Components(s)) \in {2, 3}
    /\ Components(s)[1] = <<>>
    /\ Components(s)[2] # <<>>

C28_RelativeShowAgreesWithFull ==
    Done /\ IsRelativeShowForm(input) =>
        \A X \in Shows :
            LET full == levelspec_parser(case_insensitive, X \o input)
            IN  /\ parsed.ok <=> full.ok
                /\ (parsed.ok /\ full.ok) =>
                     /\ parsed.levels[1] = Relative
                     /\ Tail(parsed.levels) = Tail(full.levels)

(***************************************************************************)
(* C29: the case mode only decides whether lowercase letters are           *)
(* accepted: an input without a lowercase letter has the same outcome in   *)
(* both builds, the same failure or the same tokens, also when its         *)
(* sequence is '%'.                                                        *)
(* Violated: the case-insensitive build alone accepts a name as shot after *)
(* a '%' sequence (C5).                                                    *)
(***************************************************************************)
C29_CaseModeOnlyForLowercase ==
    Done /\ ~HasLowercase(input) =>
        parsed = levelspec_parser(~case_insensitive, input)

(***************************************************************************)
(* C30: a successful parse has a token that is not Relative and never a    *)
(* Relative sequence between a show and a shot that are not Relative; the  *)
(* inputs "", ".", ".." and "..." are rejected.                            *)
(***************************************************************************)
C30_NeverAllRelative ==
    Done =>
        /\ parsed.ok =>
             /\ \E k \in 1..Len(parsed.levels) : parsed.levels[k] # Relative
             /\ ~(/\ Len(parsed.levels) = 3
                  /\ parsed.levels[1] # Relative
                  /\ parsed.levels[2] = Relative
                  /\ parsed.levels[3] # Relative)
        /\ input \in {<<>>, DOT, DOTDOT, DOTDOT \o DOT} => ~parsed.ok

\* a successful parse with two Relative tokens before a shot
C30_Witness ==
    /\ Done
    /\ parsed.ok
    /\ Len(parsed.levels) = 3
    /\ parsed.levels[1] = Relative
    /\ parsed.levels[2] = Relative
    /\ parsed.levels[3] # Relative

====
